---- MODULE Spec2Model ----
(***************************************************************************)
(* Model of searchAfterAndBulkCreate                                       *)
(* (x-pack/plugins/security_solution/server/lib/detection_engine/signals/  *)
(* search_after_bulk_create.ts): the loop that pops time tuples, pages     *)
(* through the search service with search_after, filters every page        *)
(* against the exception lists and bulk-creates signals under a per-tuple  *)
(* cap.  The function is single-threaded; it suspends at the three awaited *)
(* calls (singleSearchAfter, filterEventsAgainstList, singleBulkCreate).   *)
(* Each action below runs the code from one suspension point to the next.  *)
(* The three services are opaque: what they return (or throw) is chosen    *)
(* nondeterministically from small sets.                                   *)
(***************************************************************************)
EXTENDS Integers, Sequences, FiniteSets, TLC

VARIABLES
  pc,                  \* where the function is suspended
  totalToFromTuples,   \* the tuples still to be popped (line 100)
  tuple,               \* the tuple popped last (line 112)
  sortId,              \* line 94
  signalsCreatedCount, \* line 98
  toReturn,            \* line 84
  pageSize,            \* the pageSize parameter (line 78)
  searchRequest,       \* arguments of the singleSearchAfter call in flight
  searchResult,        \* the page being processed (line 126)
  filteredEvents,      \* hits offered to singleBulkCreate (line 181..200)
  lastStep,            \* history: what the last step did and received
  plannedTuples,       \* history: the list the planner returned
  truthfulWriter       \* history: no write call has reported more than it was offered

vars == <<pc, totalToFromTuples, tuple, sortId, signalsCreatedCount, toReturn,
          pageSize, searchRequest, searchResult, filteredEvents, lastStep,
          plannedTuples, truthfulWriter>>

----------------------------------------------------------------------------
(* Bounds of the model *)

\* tuples the planner returns
MaxTuples == 2
\* the pageSize parameter of the run
MaxPageSize == 2
\* singleSearchAfter calls that resolve in one run
MaxSearches == 2

----------------------------------------------------------------------------
(* JavaScript values *)

Undefined == "undefined"
Null == "null"

\* maxSignals is a JavaScript number; the planner may produce a fractional
\* one.  A number n/2 is kept as the integer n (its count of halves).
Halves(n) == 2 * n
Ceil(h) == (h + 1) \div 2
Trunc(h) == h \div 2

Min(a, b) == IF a < b THEN a ELSE b

RECURSIVE Dedupe(_)
\* [...new Set(s)]: the elements of s in order of first occurrence
Dedupe(s) ==
  IF s = <<>> THEN <<>>
  ELSE LET front == Dedupe(SubSeq(s, 1, Len(s) - 1))
           last == s[Len(s)]
       IN IF \E i \in 1..Len(front) : front[i] = last
          THEN front
          ELSE Append(front, last)

\* Number -> integer as Array.prototype.slice converts its arguments
\* (ToIntegerOrInfinity: the fraction is dropped, towards zero)
ToInteger(h) == IF h >= 0 THEN h \div 2 ELSE 0 - ((0 - h) \div 2)

\* Array.prototype.slice(0, end), end a number given in halves; a negative
\* end counts from the end of the array
Slice(s, endHalves) ==
  LET e == ToInteger(endHalves)
      k == IF e < 0 THEN (IF Len(s) + e < 0 THEN 0 ELSE Len(s) + e) ELSE Min(e, Len(s))
  IN SubSeq(s, 1, k)

Last(s) == s[Len(s)]

\* the order-preserving subsequences of s
RECURSIVE SubSeqs(_)
SubSeqs(s) ==
  IF s = <<>> THEN {<<>>}
  ELSE LET rest == SubSeqs(SubSeq(s, 1, Len(s) - 1))
       IN rest \cup {Append(r, s[Len(s)]) : r \in rest}

SeqsUpTo(S, n) == UNION {[1..k -> S] : k \in 0..n}

----------------------------------------------------------------------------
(* The planner's output: getSignalTimeTuples is not part of this file; its *)
(* result is an input of the run.                                          *)

NullTuple == [isNull |-> TRUE, from |-> Null, to |-> Null, maxSignals |-> 0]

\* maxSignals of a tuple: 1, 1.5 or 2 (in halves)
MaxSignalsValues == {Halves(1), Halves(1) + 1, Halves(2)}

ValidTuples ==
  {[isNull |-> FALSE, from |-> "now-6m", to |-> "now", maxSignals |-> h] :
     h \in MaxSignalsValues}

MalformedTuples ==
  {NullTuple,
   [isNull |-> FALSE, from |-> Null, to |-> "now", maxSignals |-> Halves(1)],
   [isNull |-> FALSE, from |-> "now-6m", to |-> Null, maxSignals |-> Halves(1)]}

Tuples == ValidTuples \cup MalformedTuples

\* The run ends at the first malformed tuple it pops and never looks at
\* another one, so lists with one malformed tuple at most are enough.
PlannedLists ==
  {l \in SeqsUpTo(Tuples, MaxTuples) :
     Cardinality({i \in 1..Len(l) : l[i] \in MalformedTuples}) <= 1}

\* moment.toISOString()
ToISOString(m) ==
  CASE m = "now-6m" -> "2020-10-01T09:54:00.000Z"
    [] m = "now" -> "2020-10-01T10:00:00.000Z"
    [] OTHER -> Null

----------------------------------------------------------------------------
(* What the services may answer *)

NullSort == [isNull |-> TRUE, ids |-> <<>>]
Sort(ids) == [isNull |-> FALSE, ids |-> ids]

Hits ==
  {[_id |-> "a", timestamp |-> "2020-10-01T09:55:00.000Z", sort |-> Sort(<<"s1">>)],
   [_id |-> "b", timestamp |-> "2020-10-01T09:56:00.000Z", sort |-> Sort(<<"s2", "s1">>)],
   [_id |-> "c", timestamp |-> "2020-10-01T09:55:00.000Z", sort |-> NullSort],
   [_id |-> "d", timestamp |-> "2020-10-01T09:56:00.000Z", sort |-> Sort(<<>>)]}

\* hits.total is a number or an object { value }
NumberTotal(n) == [type |-> "number", n |-> n]
ObjectTotal(n) == [type |-> "object", value |-> n]
Totals == {NumberTotal(0), ObjectTotal(0), NumberTotal(7), ObjectTotal(7)}

\* a page holds at most `size` hits, each document once
Pages(size) ==
  {h \in SeqsUpTo(Hits, size) :
     \A i, j \in 1..Len(h) : i # j => h[i]._id # h[j]._id}

SearchResults(size) == {[total |-> t, hits |-> h] : t \in Totals, h \in Pages(size)}

\* searchDuration and bulkCreateDuration are strings of milliseconds. The
\* call for the k-th page of a run takes the k-th time of the table, so that
\* the times of different calls can be told apart.
SearchTimeTable == <<"11", "12", "13", "14", "15", "16", "17", "18">>
BulkTimeTable == <<"51", "52", "53", "54", "55", "56", "57", "58">>

SearchDurations(k) == {SearchTimeTable[k]}

Exceptions == {[name |-> "Error", message |-> "x"], [name |-> "TypeError", message |-> "y"]}

\* `${exc}` for an Error object: its name, a colon and its message
ExcString(exc) ==
  CASE exc.name = "Error" /\ exc.message = "x" -> "Error: x"
    [] exc.name = "TypeError" /\ exc.message = "y" -> "TypeError: y"

\* success and errors of a write: all created, or a partial failure
BulkOutcomes ==
  {[success |-> TRUE, errors |-> <<>>],
   [success |-> FALSE, errors |-> <<"Error: x", "Error: x">>]}

\* a write may report no duration
BulkDurations(k) == {Undefined, BulkTimeTable[k]}

\* what filterEventsAgainstList may resolve to: the hits that pass, in order
FilterResults(result) == SubSeqs(result.hits)

\* what singleBulkCreate may resolve to when offered `batch`; a writer that
\* reports more than it was offered is possible
BulkResponses(batch, k) ==
  {[createdItemsCount |-> c, bulkCreateDuration |-> d, success |-> o.success,
    errors |-> o.errors] :
     c \in 0..(Len(batch) + 1), d \in BulkDurations(k), o \in BulkOutcomes}

----------------------------------------------------------------------------
(* The state between calls *)

NoRequest == [none |-> TRUE]
NoResult == [total |-> NumberTotal(0), hits |-> <<>>]

InitialReturn ==
  [success |-> TRUE, searchAfterTimes |-> <<>>, bulkCreateTimes |-> <<>>,
   lastLookBackDate |-> Null, createdSignalsCount |-> 0, errors |-> <<>>]

Init ==
  /\ pc = "whileTuples"
  /\ totalToFromTuples \in PlannedLists
  /\ plannedTuples = totalToFromTuples
  /\ tuple = NullTuple
  /\ sortId = Undefined
  /\ signalsCreatedCount = 0
  /\ toReturn = InitialReturn
  /\ pageSize = MaxPageSize
  /\ searchRequest = NoRequest
  /\ searchResult = NoResult
  /\ filteredEvents = <<>>
  /\ lastStep = [kind |-> "start"]
  /\ truthfulWriter = TRUE

----------------------------------------------------------------------------
(* Pieces of searchAfterAndBulkCreate *)

\* mutant: the check of tuple.to is missing
IsMalformedIgnoringTo(t) == t.isNull \/ t.from = Null

\* line 113: tuple == null || tuple.to == null || tuple.from == null
IsMalformed(t) == t.isNull \/ t.to = Null \/ t.from = Null

\* mutant: shift() in place of pop()
Shifted(tuples) == tuples[1]

\* line 112: what totalToFromTuples.pop() returns
Popped(tuples) == tuples[Len(tuples)]

\* line 112: what totalToFromTuples.pop() leaves in the array
AfterPop(tuples) == SubSeq(tuples, 1, Len(tuples) - 1)

\* mutant: the counter is not reset
CountCarriedOver(count) == count

\* line 119: signalsCreatedCount = 0
CountAtTupleStart(count) == 0

\* mutant: <= in place of <
WithinMaxSignalsInclusive(count, t) == Halves(count) <= t.maxSignals

\* line 120: signalsCreatedCount < tuple.maxSignals
WithinMaxSignals(count, t) == Halves(count) < t.maxSignals

\* mutant: Math.floor in place of Math.ceil
SearchPageSizeFloor(t, size) ==
  IF t.maxSignals < Halves(size) THEN Trunc(t.maxSignals) ELSE size

\* line 137: tuple.maxSignals < pageSize ? Math.ceil(tuple.maxSignals) : pageSize
SearchPageSize(t, size) ==
  IF t.maxSignals < Halves(size) THEN Ceil(t.maxSignals) ELSE size

\* lines 144-147: hits.total as a number
TotalHits(total) == IF total.type = "number" THEN total.n ELSE total.value

\* mutant: only the page's length is looked at
NoHits(result) == Len(result.hits) = 0

\* line 161
NoCandidates(result) == TotalHits(result.total) = 0 \/ Len(result.hits) = 0

\* new Date(timestamp)
NewDate(ts) ==
  CASE ts = "2020-10-01T09:55:00.000Z" -> "Date(1601546100000)"
    [] ts = "2020-10-01T09:56:00.000Z" -> "Date(1601546160000)"
    [] OTHER -> "Invalid Date"

\* mutant: the date is taken from the first hit of the page
LookBackDateOfFirstHit(result) ==
  IF Len(result.hits) > 0 THEN NewDate(result.hits[1].timestamp) ELSE Null

\* lines 171-176
LookBackDate(result) ==
  IF Len(result.hits) > 0 THEN NewDate(Last(result.hits).timestamp) ELSE Null

\* mutant: the batch goes to the writer as the filter left it
NoTruncation(hits, count, t) == hits

\* mutant: the slice keeps one hit more than the budget left
TruncateOneTooMany(hits, count, t) ==
  IF Halves(count + Len(hits)) > t.maxSignals
  THEN Slice(hits, t.maxSignals - Halves(count) + Halves(1))
  ELSE hits

\* mutant: the slice forgets the signals the tuple has already created
TruncateIgnoringCount(hits, count, t) ==
  IF Halves(count + Len(hits)) > t.maxSignals
  THEN Slice(hits, t.maxSignals)
  ELSE hits

\* mutant: the slice keeps the end of the list
TruncateKeepingEnd(hits, count, t) ==
  IF Halves(count + Len(hits)) > t.maxSignals
  THEN LET kept == Slice(hits, t.maxSignals - Halves(count))
       IN SubSeq(hits, Len(hits) - Len(kept) + 1, Len(hits))
  ELSE hits

\* lines 195-200: the hits offered to singleBulkCreate
TruncateToMaxSignals(hits, count, t) ==
  IF Halves(count + Len(hits)) > t.maxSignals
  THEN Slice(hits, t.maxSignals - Halves(count))
  ELSE hits

\* mutant: the new errors are appended without the Set
AppendErrors(errors, more) == errors \o more

\* lines 116, 237, 253: [...new Set([...toReturn.errors, ...more])]
MergeErrors(errors, more) == Dedupe(errors \o more)

\* mutant: || in place of &&
EitherSuccess(success, bulkSuccess) == success \/ bulkSuccess

\* mutant: success is overwritten by the last write's
LastSuccess(success, bulkSuccess) == bulkSuccess

\* line 236
MergeSuccess(success, bulkSuccess) == success /\ bulkSuccess

\* mutant: the counters grow by the size of the batch
CountOffered(r, batch) == Len(batch)

\* lines 203, 226-227: createdItemsCount, added to both counters
CreatedCount(r, batch) == r.createdItemsCount

\* mutant: the duration is pushed whatever it is
PushBulkDurationAlways(times, d) == Append(times, d)

\* lines 229-231: if (bulkDuration) push
PushBulkDuration(times, d) ==
  IF d # Undefined /\ d # "" THEN Append(times, d) ELSE times

\* lines 243-244: the last hit of the unfiltered page carries a sort id
HasSortId(result) ==
  LET lastSortId == Last(result.hits).sort
  IN ~lastSortId.isNull /\ Len(lastSortId.ids) # 0

\* line 245
NextSortId(result) == Last(result.hits).sort.ids[1]

\* mutant: a failure leaves success as it was
FailedKeepingSuccess(ret, message) ==
  [ret EXCEPT !.errors = MergeErrors(ret.errors, <<message>>)]

\* mutant: the errors recorded so far are replaced, not extended
FailedDroppingErrors(ret, message) ==
  [ret EXCEPT !.success = FALSE, !.errors = <<message>>]

\* lines 250-254 (and 114-117 for the malformed tuple)
Failed(ret, message) ==
  [ret EXCEPT !.success = FALSE, !.errors = MergeErrors(ret.errors, <<message>>)]

\* line 120 reached with the given count and sortId: either the next
\* singleSearchAfter call goes out (lines 128-140) or the page loop is over
PageLoop(t, count, sid) ==
  IF WithinMaxSignals(count, t)
  THEN /\ pc' = "singleSearchAfter"
       /\ searchRequest' = [searchAfterSortId |-> sid,
                            from |-> ToISOString(t.from),
                            to |-> ToISOString(t.to),
                            pageSize |-> SearchPageSize(t, pageSize)]
  ELSE /\ pc' = "whileTuples"
       /\ searchRequest' = NoRequest

\* mutant: no break when the sort id is missing
AdvanceCursorWithoutBreak(count) ==
  IF HasSortId(searchResult)
  THEN /\ sortId' = NextSortId(searchResult)
       /\ PageLoop(tuple, count, NextSortId(searchResult))
  ELSE /\ sortId' = sortId
       /\ PageLoop(tuple, count, sortId)

\* mutant: the sort id is taken from the last hit of the filtered batch
AdvanceCursorFromFiltered(count) ==
  LET batch == [hits |-> filteredEvents]
  IN IF filteredEvents # <<>> /\ HasSortId(batch)
     THEN /\ sortId' = NextSortId(batch)
          /\ PageLoop(tuple, count, NextSortId(batch))
     ELSE /\ sortId' = sortId
          /\ pc' = "whileTuples"
          /\ searchRequest' = NoRequest

\* lines 243-249, then back to line 120
AdvanceCursor(count) ==
  IF HasSortId(searchResult)
  THEN /\ sortId' = NextSortId(searchResult)
       /\ PageLoop(tuple, count, NextSortId(searchResult))
  ELSE /\ sortId' = sortId
       /\ pc' = "whileTuples"
       /\ searchRequest' = NoRequest

----------------------------------------------------------------------------
(* The steps *)

\* line 111 false, lines 258-259
Completed ==
  /\ pc = "whileTuples"
  /\ Len(totalToFromTuples) = 0
  /\ pc' = "returned"
  /\ lastStep' = [kind |-> "completed"]
  /\ UNCHANGED <<totalToFromTuples, tuple, sortId, signalsCreatedCount, toReturn,
                 pageSize, searchRequest, searchResult, filteredEvents,
                 plannedTuples, truthfulWriter>>

\* lines 111-118: the popped tuple is malformed
MalformedTuple ==
  /\ pc = "whileTuples"
  /\ Len(totalToFromTuples) > 0
  /\ IsMalformed(Popped(totalToFromTuples))
  /\ tuple' = Popped(totalToFromTuples)
  /\ totalToFromTuples' = AfterPop(totalToFromTuples)
  /\ toReturn' = Failed(toReturn, "malformed date tuple")
  /\ pc' = "returned"
  /\ lastStep' = [kind |-> "malformed"]
  /\ UNCHANGED <<sortId, signalsCreatedCount, pageSize, searchRequest, searchResult,
                 filteredEvents, plannedTuples, truthfulWriter>>

\* lines 111-140: pop a tuple, reset the counter, enter the page loop
PopTuple ==
  /\ pc = "whileTuples"
  /\ Len(totalToFromTuples) > 0
  /\ ~IsMalformed(Popped(totalToFromTuples))
  /\ tuple' = Popped(totalToFromTuples)
  /\ totalToFromTuples' = AfterPop(totalToFromTuples)
  /\ signalsCreatedCount' = CountAtTupleStart(signalsCreatedCount)
  /\ PageLoop(tuple', signalsCreatedCount', sortId)
  /\ lastStep' = [kind |-> "pop"]
  /\ UNCHANGED <<sortId, toReturn, pageSize, searchResult, filteredEvents, plannedTuples,
                 truthfulWriter>>

\* lines 141-176: singleSearchAfter has resolved to result
SearchAfterResolved(result, duration) ==
  /\ pc = "singleSearchAfter"
  /\ LET timed == [toReturn EXCEPT !.searchAfterTimes = Append(@, duration)]
     IN IF NoCandidates(result)
        THEN /\ toReturn' = timed
             /\ searchResult' = NoResult
             /\ pc' = "whileTuples"
        ELSE /\ toReturn' = [timed EXCEPT !.lastLookBackDate = LookBackDate(result)]
             /\ searchResult' = result
             /\ pc' = "filterEventsAgainstList"
  /\ searchRequest' = NoRequest
  /\ lastStep' = [kind |-> "searched", request |-> searchRequest,
                   total |-> result.total, hitCount |-> Len(result.hits),
                   duration |-> duration]
  /\ UNCHANGED <<totalToFromTuples, tuple, sortId, signalsCreatedCount, pageSize,
                 filteredEvents, plannedTuples, truthfulWriter>>

\* singleSearchAfter resolves while the index still holds pages to return
SearchAfterReturns(result, duration) ==
  /\ Len(toReturn.searchAfterTimes) < MaxSearches
  /\ SearchAfterResolved(result, duration)

\* singleSearchAfter resolves once the index has returned all its hits: the
\* page is empty, whatever total the response reports
SearchAfterReturnsNothing(total, duration) ==
  /\ Len(toReturn.searchAfterTimes) >= MaxSearches
  /\ SearchAfterResolved([total |-> total, hits |-> <<>>], duration)

\* lines 181-200 and, for an empty filter result, 243-249: filterEventsAgainstList resolves
FilterReturns(filtered) ==
  /\ pc = "filterEventsAgainstList"
  /\ IF Len(filtered) # 0
     THEN /\ filteredEvents' = TruncateToMaxSignals(filtered, signalsCreatedCount, tuple)
          /\ pc' = "singleBulkCreate"
          /\ UNCHANGED <<sortId, searchRequest, searchResult>>
     ELSE /\ AdvanceCursor(signalsCreatedCount)
          /\ filteredEvents' = <<>>
          /\ searchResult' = NoResult
  /\ lastStep' = [kind |-> "filtered", filtered |-> filtered]
  /\ UNCHANGED <<totalToFromTuples, tuple, signalsCreatedCount, toReturn, pageSize,
                 plannedTuples, truthfulWriter>>

\* lines 225-249: singleBulkCreate resolves
BulkCreateReturns(r) ==
  /\ pc = "singleBulkCreate"
  /\ toReturn' = [toReturn EXCEPT
       !.createdSignalsCount = @ + CreatedCount(r, filteredEvents),
       !.bulkCreateTimes = PushBulkDuration(@, r.bulkCreateDuration),
       !.success = MergeSuccess(@, r.success),
       !.errors = MergeErrors(@, r.errors)]
  /\ signalsCreatedCount' = signalsCreatedCount + CreatedCount(r, filteredEvents)
  /\ AdvanceCursor(signalsCreatedCount')
  /\ filteredEvents' = <<>>
  /\ searchResult' = NoResult
  /\ truthfulWriter' = (truthfulWriter /\ r.createdItemsCount <= Len(filteredEvents))
  /\ lastStep' = [kind |-> "created", success |-> r.success, errors |-> r.errors,
                   createdItemsCount |-> r.createdItemsCount,
                   bulkCreateDuration |-> r.bulkCreateDuration]
  /\ UNCHANGED <<totalToFromTuples, tuple, pageSize, plannedTuples>>

\* lines 250-254: an awaited call rejects
Catch(exc, call) ==
  /\ toReturn' = Failed(toReturn, ExcString(exc))
  /\ pc' = "returned"
  /\ searchRequest' = NoRequest
  /\ searchResult' = NoResult
  /\ filteredEvents' = <<>>
  /\ lastStep' = [kind |-> "caught", call |-> call, error |-> ExcString(exc)]
  /\ UNCHANGED <<totalToFromTuples, tuple, sortId, signalsCreatedCount, pageSize,
                 plannedTuples, truthfulWriter>>

SearchAfterThrows(exc) == pc = "singleSearchAfter" /\ Catch(exc, "singleSearchAfter")

FilterThrows(exc) == pc = "filterEventsAgainstList" /\ Catch(exc, "filterEventsAgainstList")

BulkCreateThrows(exc) == pc = "singleBulkCreate" /\ Catch(exc, "singleBulkCreate")

Next ==
  \/ Completed
  \/ MalformedTuple
  \/ PopTuple
  \/ /\ pc = "singleSearchAfter"
     /\ \E result \in SearchResults(searchRequest.pageSize),
           d \in SearchDurations(Len(toReturn.searchAfterTimes) + 1) :
          SearchAfterReturns(result, d)
  \/ \E exc \in Exceptions : SearchAfterThrows(exc)
  \/ \E filtered \in FilterResults(searchResult) : FilterReturns(filtered)
  \/ \E exc \in Exceptions : FilterThrows(exc)
  \/ /\ pc = "singleBulkCreate"
     /\ \E r \in BulkResponses(filteredEvents, Len(toReturn.searchAfterTimes)) :
          BulkCreateReturns(r)
  \/ \E exc \in Exceptions : BulkCreateThrows(exc)

Spec == Init /\ [][Next]_vars

\* The run against an index that holds finitely many hits: after MaxSearches
\* pages the searches find nothing more.
NextLive ==
  \/ Next
  \/ /\ pc = "singleSearchAfter"
     /\ \E total \in Totals, d \in SearchDurations(Len(toReturn.searchAfterTimes) + 1) :
          SearchAfterReturnsNothing(total, d)

\* Every awaited call settles: the promise resolves or rejects, and the
\* function goes on from there.
SpecLive == Init /\ [][NextLive]_vars /\ WF_vars(NextLive)

----------------------------------------------------------------------------
(* Properties *)

Range(s) == {s[i] : i \in 1..Len(s)}

NoDuplicates(s) == \A i, j \in 1..Len(s) : i # j => s[i] # s[j]

IsWhole(h) == h % 2 = 0

RECURSIVE SumMaxSignals(_)
\* the sum of maxSignals over a list of tuples, in halves
SumMaxSignals(l) ==
  IF l = <<>> THEN 0 ELSE l[Len(l)].maxSignals + SumMaxSignals(SubSeq(l, 1, Len(l) - 1))

\* a tuple has been popped and its page loop was entered
InWindow == ~tuple.isNull /\ tuple.from # Null /\ tuple.to # Null

\* the step in which singleBulkCreate resolves
WriteReturns == pc = "singleBulkCreate" /\ lastStep'.kind = "created"

\* the step in which filterEventsAgainstList resolves
FilterDone == pc = "filterEventsAgainstList" /\ lastStep'.kind = "filtered"

\* what the write call of a WriteReturns step reported as created
ReportedCount == signalsCreatedCount' - signalsCreatedCount

\* by how much the write call of a WriteReturns step reported more than it was offered
OverReport ==
  IF ReportedCount > Len(filteredEvents) THEN ReportedCount - Len(filteredEvents) ELSE 0

\* the last hit of the page being processed has no sort token (null or empty)
MissingSortToken ==
  LET last == searchResult.hits[Len(searchResult.hits)]
  IN last.sort.isNull \/ last.sort.ids = <<>>

\* C1: with a writer that never reports more than it was offered and an
\* integer maxSignals, the per-tuple counter signalsCreatedCount never exceeds
\* the maxSignals of the current tuple.
C1_CountWithinMaxSignals ==
  (truthfulWriter /\ InWindow /\ IsWhole(tuple.maxSignals))
    => Halves(signalsCreatedCount) <= tuple.maxSignals

\* C1 witness: a truthful run, some signals already created in the tuple,
\* and the batch on its way to the writer was cut short.
C1_Witness ==
  /\ pc = "singleBulkCreate"
  /\ truthfulWriter
  /\ IsWhole(tuple.maxSignals)
  /\ signalsCreatedCount > 0
  /\ lastStep.kind = "filtered"
  /\ Len(filteredEvents) < Len(lastStep.filtered)
  /\ Halves(signalsCreatedCount + Len(filteredEvents)) = tuple.maxSignals

\* C2 as stated: the per-tuple counter never exceeds maxSignals, whatever
\* createdItemsCount the writer reports.
C2_Original == InWindow => Halves(signalsCreatedCount) <= tuple.maxSignals

\* C2 amended: a write call leaves the per-tuple counter above maxSignals by
\* no more than the amount by which it reported more than it was offered; the
\* counter stays within maxSignals when the call reports no more than offered.
C2_CountWithinMaxSignalsPlusOverReport ==
  [][WriteReturns =>
       Halves(signalsCreatedCount') <= tuple.maxSignals + Halves(OverReport)]_vars

\* C2 witness: the writer reported more than it was offered and the counter
\* of the tuple is above maxSignals.
C2_Witness ==
  /\ lastStep.kind = "created"
  /\ ~truthfulWriter
  /\ InWindow
  /\ Halves(signalsCreatedCount) > tuple.maxSignals

\* C3: with a writer that never reports more than it was offered,
\* createdSignalsCount never exceeds the sum of maxSignals over the tuples the
\* planner returned, in every state and in the returned result.
C3_TotalWithinSumOfMaxSignals ==
  truthfulWriter => Halves(toReturn.createdSignalsCount) <= SumMaxSignals(plannedTuples)

\* C3 witness: a returned run over two tuples that created exactly the sum of
\* their maxSignals.
C3_Witness ==
  /\ pc = "returned"
  /\ truthfulWriter
  /\ Len(plannedTuples) = 2
  /\ toReturn.createdSignalsCount >= 2
  /\ Halves(toReturn.createdSignalsCount) = SumMaxSignals(plannedTuples)

\* C4: toReturn.errors never holds the same string twice.
C4_ErrorsAreUnique == NoDuplicates(toReturn.errors)

\* C4 witness: a write reported a list that repeats one message, and a later
\* malformed tuple added a second message.
C4_Witness ==
  /\ pc = "returned"
  /\ lastStep.kind = "malformed"
  /\ toReturn.errors = <<"Error: x", "malformed date tuple">>

\* C5: the first singleSearchAfter call of every tuple goes out without a
\* search_after cursor.
C5_FirstSearchOfTupleHasNoCursor ==
  (pc = "singleSearchAfter" /\ lastStep.kind = "pop")
    => searchRequest.searchAfterSortId = Undefined

\* C6 as stated: the page size sent is the smaller of the budget left in the
\* tuple (maxSignals minus the signals created in it, rounded up) and pageSize.
C6_Original ==
  pc = "singleSearchAfter"
    => searchRequest.pageSize =
         Min(Ceil(tuple.maxSignals - Halves(signalsCreatedCount)), pageSize)

\* C6 amended: the page size sent is the smaller of the tuple's maxSignals,
\* rounded up, and pageSize, however many signals the tuple has created.
C6_PageSizeIsMinOfMaxSignalsAndPageSize ==
  pc = "singleSearchAfter"
    => searchRequest.pageSize = Min(Ceil(tuple.maxSignals), pageSize)

\* C6 witness: a search is in flight in a tuple that has created signals, so
\* that the budget left is smaller than what is asked for.
C6_Witness ==
  /\ pc = "singleSearchAfter"
  /\ signalsCreatedCount > 0
  /\ searchRequest.pageSize > Ceil(tuple.maxSignals - Halves(signalsCreatedCount))

\* C7: when singleSearchAfter throws the run returns at once with
\* success = false, the earlier errors plus the stringified exception (a
\* single entry when there were none), and createdSignalsCount and both
\* duration lists as they were; nothing happens after the return.
C7_SearchFailureAborts ==
  /\ [][(pc = "singleSearchAfter" /\ lastStep'.kind = "caught") =>
          /\ pc' = "returned"
          /\ searchRequest' = NoRequest
          /\ toReturn'.success = FALSE
          /\ toReturn'.errors =
               (IF lastStep'.error \in Range(toReturn.errors)
                THEN toReturn.errors
                ELSE Append(toReturn.errors, lastStep'.error))
          /\ (toReturn.errors = <<>> => Len(toReturn'.errors) = 1)
          /\ toReturn'.createdSignalsCount = toReturn.createdSignalsCount
          /\ toReturn'.searchAfterTimes = toReturn.searchAfterTimes
          /\ toReturn'.bulkCreateTimes = toReturn.bulkCreateTimes
          /\ totalToFromTuples' = totalToFromTuples]_vars
  /\ [][pc # "returned"]_vars

\* C7 witness: the search of the second page threw after the first page had
\* created signals and recorded an error.
C7_Witness ==
  /\ pc = "returned"
  /\ lastStep.kind = "caught"
  /\ lastStep.call = "singleSearchAfter"
  /\ Len(toReturn.searchAfterTimes) = 1
  /\ toReturn.createdSignalsCount > 0
  /\ toReturn.errors = <<"Error: x", "TypeError: y">>

\* C8: a write that resolves with success = false does not end the run: its
\* errors are merged, the cursor moves to the page's last sort token, the page
\* loop or the next tuple goes on; and success never turns from false to true.
C8_PartialWriteFailureContinues ==
  /\ [][(WriteReturns /\ ~lastStep'.success) =>
          /\ pc' \in {"singleSearchAfter", "whileTuples"}
          /\ toReturn'.success = FALSE
          /\ Range(toReturn'.errors) = Range(toReturn.errors) \cup Range(lastStep'.errors)
          /\ totalToFromTuples' = totalToFromTuples
          /\ (~MissingSortToken =>
                /\ sortId' = Last(searchResult.hits).sort.ids[1]
                /\ (pc' = "singleSearchAfter"
                      <=> Halves(signalsCreatedCount') < tuple.maxSignals)
                /\ (pc' = "singleSearchAfter"
                      => searchRequest'.searchAfterSortId = sortId'))]_vars
  /\ [][~toReturn.success => ~toReturn'.success]_vars

\* C8 witness: a write has just succeeded in a run in which an earlier write
\* failed, and the next search is in flight.
C8_Witness ==
  /\ pc = "singleSearchAfter"
  /\ lastStep.kind = "created"
  /\ lastStep.success
  /\ ~toReturn.success
  /\ toReturn.errors = <<"Error: x">>

\* C9: when the last hit of a page has no sort token the filtered batch still
\* goes to the writer, then the page loop of the tuple stops with the cursor
\* as it was, no error is added and success is not changed by it, and the
\* next tuple, if any, is popped.
C9_MissingSortTokenEndsTuple ==
  /\ [][(FilterDone /\ MissingSortToken /\ lastStep'.filtered # <<>>) =>
          /\ pc' = "singleBulkCreate"
          /\ toReturn' = toReturn]_vars
  /\ [][(FilterDone /\ MissingSortToken /\ lastStep'.filtered = <<>>) =>
          /\ pc' = "whileTuples"
          /\ sortId' = sortId
          /\ toReturn' = toReturn
          /\ totalToFromTuples' = totalToFromTuples]_vars
  /\ [][(WriteReturns /\ MissingSortToken) =>
          /\ pc' = "whileTuples"
          /\ sortId' = sortId
          /\ Range(toReturn'.errors) = Range(toReturn.errors) \cup Range(lastStep'.errors)
          /\ toReturn'.success = (toReturn.success /\ lastStep'.success)
          /\ totalToFromTuples' = totalToFromTuples]_vars
  /\ [][(pc = "whileTuples" /\ totalToFromTuples # <<>>) =>
          /\ tuple' = totalToFromTuples[Len(totalToFromTuples)]
          /\ Len(totalToFromTuples') = Len(totalToFromTuples) - 1]_vars

\* C9 witness: the only page of the first tuple was written and had no sort
\* token (the cursor is still unset), and the next tuple's search is in flight
\* with success still true.
C9_Witness ==
  /\ pc = "singleSearchAfter"
  /\ lastStep.kind = "pop"
  /\ Len(toReturn.searchAfterTimes) = 1
  /\ toReturn.createdSignalsCount > 0
  /\ Halves(toReturn.createdSignalsCount) < plannedTuples[Len(plannedTuples)].maxSignals
  /\ sortId = Undefined
  /\ toReturn.success
  /\ toReturn.errors = <<>>

\* C10: popping a malformed tuple (null, or without from or to) returns at
\* once with success = false and 'malformed date tuple' added to errors, with
\* createdSignalsCount, the durations and the earlier errors kept and no
\* search or write call for it or for the tuples left in the list.
C10_MalformedTupleAborts ==
  /\ [][(/\ pc = "whileTuples"
         /\ totalToFromTuples # <<>>
         /\ LET t == totalToFromTuples[Len(totalToFromTuples)]
            IN t.isNull \/ t.from = Null \/ t.to = Null) =>
          /\ pc' = "returned"
          /\ searchRequest' = NoRequest
          /\ toReturn'.success = FALSE
          /\ toReturn'.errors =
               (IF "malformed date tuple" \in Range(toReturn.errors)
                THEN toReturn.errors
                ELSE Append(toReturn.errors, "malformed date tuple"))
          /\ toReturn'.createdSignalsCount = toReturn.createdSignalsCount
          /\ toReturn'.searchAfterTimes = toReturn.searchAfterTimes
          /\ toReturn'.bulkCreateTimes = toReturn.bulkCreateTimes
          /\ toReturn'.lastLookBackDate = toReturn.lastLookBackDate]_vars
  /\ [][pc = "returned" => pc' = "returned" /\ toReturn' = toReturn]_vars

\* C10 witness: a malformed tuple was popped after an earlier tuple had
\* created signals and recorded an error.
C10_Witness ==
  /\ pc = "returned"
  /\ lastStep.kind = "malformed"
  /\ toReturn.createdSignalsCount > 0
  /\ Len(toReturn.searchAfterTimes) > 0
  /\ Len(toReturn.bulkCreateTimes) > 0
  /\ Len(toReturn.errors) = 2

(* C11 *)
\* C11: a page stops the page loop of its tuple when its normalized total is
\* 0 or when it holds no hit, each alone; otherwise it goes to the filter. A
\* stopping page (a total of 0 with hits included) leaves lastLookBackDate,
\* the cursor, both counters and the write durations alone, reaches neither
\* the filter nor the writer, and the run goes on with the next tuple.
C11_EmptyPageEndsPageLoop ==
  /\ [][(pc = "singleSearchAfter" /\ lastStep'.kind = "searched") =>
          LET total == lastStep'.total
              zeroTotal == IF total.type = "number" THEN total.n = 0 ELSE total.value = 0
          IN IF zeroTotal \/ lastStep'.hitCount = 0
             THEN /\ pc' = "whileTuples"
                  /\ searchRequest' = NoRequest
                  /\ filteredEvents' = <<>>
                  /\ sortId' = sortId
                  /\ signalsCreatedCount' = signalsCreatedCount
                  /\ totalToFromTuples' = totalToFromTuples
                  /\ toReturn'.lastLookBackDate = toReturn.lastLookBackDate
                  /\ toReturn'.createdSignalsCount = toReturn.createdSignalsCount
                  /\ toReturn'.bulkCreateTimes = toReturn.bulkCreateTimes
             ELSE pc' = "filterEventsAgainstList"]_vars
  /\ [][pc' \in {"filterEventsAgainstList", "singleBulkCreate"} =>
          /\ Len(searchResult'.hits) > 0
          /\ searchResult'.total \notin {NumberTotal(0), ObjectTotal(0)}]_vars

\* C11 witness: the second page of a tuple reported a total of 0 (as an
\* object) and yet carried hits; the page loop is over, lastLookBackDate is
\* the first page's, and a tuple is left to go on with.
C11_Witness ==
  /\ pc = "whileTuples"
  /\ lastStep.kind = "searched"
  /\ lastStep.total.type = "object"
  /\ lastStep.total.value = 0
  /\ lastStep.hitCount > 0
  /\ Len(toReturn.searchAfterTimes) = 2
  /\ toReturn.lastLookBackDate # Null
  /\ totalToFromTuples # <<>>

(* C12 *)
\* C12 as stated: the batch offered to the writer is the prefix of the
\* filtered hits whose length is min(number of filtered hits, maxSignals -
\* signals created so far in the tuple).
C12_Original ==
  [][(FilterDone /\ lastStep'.filtered # <<>>) =>
       LET filtered == lastStep'.filtered
           left == tuple.maxSignals - Halves(signalsCreatedCount)
       IN /\ Halves(Len(filteredEvents')) =
               (IF Halves(Len(filtered)) < left THEN Halves(Len(filtered)) ELSE left)
          /\ filteredEvents' = SubSeq(filtered, 1, Len(filteredEvents'))]_vars

\* C12 amended: the batch offered to the writer is the prefix of the filtered
\* hits, in filter order, whose length is min(number of filtered hits,
\* maxSignals - signals created so far in the tuple, rounded down).
C12_BatchIsPrefixWithinBudgetLeft ==
  [][(FilterDone /\ lastStep'.filtered # <<>>) =>
       LET filtered == lastStep'.filtered
           left == (tuple.maxSignals - Halves(signalsCreatedCount)) \div 2
           n == IF Len(filtered) < left THEN Len(filtered) ELSE left
       IN /\ pc' = "singleBulkCreate"
          /\ filteredEvents' = SubSeq(filtered, 1, n)]_vars

\* C12 witness: maxSignals is 1.5, nothing created yet, the filter passed two
\* hits and the first of them alone is on its way to the writer.
C12_Witness ==
  /\ pc = "singleBulkCreate"
  /\ lastStep.kind = "filtered"
  /\ ~IsWhole(tuple.maxSignals)
  /\ signalsCreatedCount = 0
  /\ Len(lastStep.filtered) = 2
  /\ filteredEvents = <<lastStep.filtered[1]>>

(* C13 *)
\* C13: once the counter of a tuple has reached the tuple's maxSignals, no
\* search, filter or write call is out for that tuple: the write that takes
\* the counter there ends the page loop, whatever sort token its page
\* carried, and the run is back at the tuple list (next tuple or return).
C13_NoCallOnceMaxSignalsReached ==
  /\ [][pc' \in {"singleSearchAfter", "filterEventsAgainstList", "singleBulkCreate"} =>
          Halves(signalsCreatedCount') < tuple'.maxSignals]_vars
  /\ [][(WriteReturns /\ Halves(signalsCreatedCount') >= tuple.maxSignals) =>
          /\ pc' = "whileTuples"
          /\ searchRequest' = NoRequest
          /\ tuple' = tuple]_vars

\* C13 witness: the first page of a tuple was written, its last hit carried
\* a sort token (the cursor is set), the counter is at maxSignals and the run
\* is back at the tuple list with a tuple left.
C13_Witness ==
  /\ pc = "whileTuples"
  /\ lastStep.kind = "created"
  /\ Halves(signalsCreatedCount) = tuple.maxSignals
  /\ Len(toReturn.searchAfterTimes) = 1
  /\ sortId # Undefined
  /\ totalToFromTuples # <<>>

(* C14 *)
\* C14: the counter of a tuple is 0 when the tuple's page loop starts, and
\* popping a tuple leaves createdSignalsCount alone; a batch is cut only when
\* the tuple's own counter plus the batch exceeds the tuple's maxSignals,
\* whatever earlier tuples created; and inside a tuple createdSignalsCount
\* and the tuple's counter grow together, so that createdSignalsCount is the
\* sum of what the tuples created.
C14_CounterIsPerTuple ==
  /\ [][(pc = "whileTuples" /\ pc' = "singleSearchAfter") =>
          /\ signalsCreatedCount' = 0
          /\ toReturn'.createdSignalsCount = toReturn.createdSignalsCount]_vars
  /\ [][(FilterDone /\ lastStep'.filtered # <<>>
           /\ Halves(signalsCreatedCount + Len(lastStep'.filtered)) <= tuple.maxSignals) =>
          filteredEvents' = lastStep'.filtered]_vars
  /\ [][pc # "whileTuples" =>
          toReturn'.createdSignalsCount - signalsCreatedCount' =
            toReturn.createdSignalsCount - signalsCreatedCount]_vars

\* C14 witness: the second of two tuples has just created its full
\* maxSignals, after the first tuple had created signals of its own.
C14_Witness ==
  /\ lastStep.kind = "created"
  /\ truthfulWriter
  /\ Len(plannedTuples) = 2
  /\ totalToFromTuples = <<>>
  /\ Halves(signalsCreatedCount) = tuple.maxSignals
  /\ toReturn.createdSignalsCount > signalsCreatedCount

(* C15 *)
\* C15: a write call that returns adds exactly the createdItemsCount it
\* reported to createdSignalsCount and to the counter of the tuple, and no
\* other step changes createdSignalsCount, which is therefore the sum of
\* createdItemsCount over the write calls that returned; a write that
\* reports fewer than it was offered leaves the tuple's counter below
\* maxSignals, and the next page is fetched when the page had a sort token.
C15_CountersGrowByCreatedItemsCount ==
  /\ [][WriteReturns =>
          /\ toReturn'.createdSignalsCount =
               toReturn.createdSignalsCount + lastStep'.createdItemsCount
          /\ signalsCreatedCount' = signalsCreatedCount + lastStep'.createdItemsCount]_vars
  /\ [][~WriteReturns =>
          toReturn'.createdSignalsCount = toReturn.createdSignalsCount]_vars
  /\ [][(WriteReturns /\ lastStep'.createdItemsCount < Len(filteredEvents)) =>
          /\ Halves(signalsCreatedCount') < tuple.maxSignals
          /\ ~MissingSortToken => (pc' = "singleSearchAfter" /\ tuple' = tuple)]_vars

\* C15 witness: the first write of a tuple was offered a hit and reported
\* none created; both counters are still 0 and the tuple's next page is
\* being fetched.
C15_Witness ==
  /\ pc = "singleSearchAfter"
  /\ lastStep.kind = "created"
  /\ lastStep.createdItemsCount = 0
  /\ signalsCreatedCount = 0
  /\ toReturn.createdSignalsCount = 0
  /\ Len(toReturn.searchAfterTimes) = 1

(* C16 *)
\* the step that ends the processing of a page which went past line 161:
\* the filter left nothing, or the write returned
PageDone == (FilterDone /\ lastStep'.filtered = <<>>) \/ WriteReturns

\* C16: when a page that went past the empty-page check has been processed
\* and its last hit carries a sort token, the cursor is that token (the first
\* element of the sort array of the last hit of the page as the search
\* returned it) and the next fetch of the tuple is sent with it, whether the
\* filter removed hits or the batch was cut; when the filter removes every
\* hit nothing is written and the cursor advances all the same; no other
\* step moves the cursor.
C16_CursorIsLastUnfilteredSortId ==
  /\ [][(PageDone /\ ~MissingSortToken) =>
          LET token == searchResult.hits[Len(searchResult.hits)].sort.ids[1]
          IN /\ sortId' = token
             /\ pc' = "singleSearchAfter" => searchRequest'.searchAfterSortId = token]_vars
  /\ [][(FilterDone /\ lastStep'.filtered = <<>>) =>
          /\ pc' # "singleBulkCreate"
          /\ toReturn' = toReturn
          /\ signalsCreatedCount' = signalsCreatedCount]_vars
  /\ [][(FilterDone /\ lastStep'.filtered # <<>>) =>
          /\ searchResult' = searchResult
          /\ sortId' = sortId]_vars
  /\ [][(pc = "singleSearchAfter" /\ pc' = "filterEventsAgainstList") =>
          /\ searchResult'.hits # <<>>
          /\ lastStep'.hitCount = Len(searchResult'.hits)]_vars
  /\ [][~PageDone => sortId' = sortId]_vars

\* C16 witness: the filter removed every hit of a tuple's first page, whose
\* last hit has the sort array [s2, s1]; nothing was written and the next
\* fetch is out with the cursor s2.
C16_Witness ==
  /\ pc = "singleSearchAfter"
  /\ lastStep.kind = "filtered"
  /\ lastStep.filtered = <<>>
  /\ Len(toReturn.searchAfterTimes) = 1
  /\ toReturn.bulkCreateTimes = <<>>
  /\ sortId = "s2"
  /\ searchRequest.searchAfterSortId = "s2"

(* C17 *)
\* C17: the tuples are taken one at a time from the end of the planner's
\* list: the list only ever loses its last element, the element lost is the
\* current tuple, and it is taken only between page loops, when no call is
\* out and no page is being processed; what is left of the list is always a
\* prefix of the planner's list, so no tuple is taken twice. With an empty
\* list the run returns the initial result without a call.
C17_TuplesPoppedFromEndOneAtATime ==
  /\ [][totalToFromTuples' # totalToFromTuples =>
          /\ pc = "whileTuples"
          /\ searchRequest = NoRequest
          /\ searchResult = NoResult
          /\ filteredEvents = <<>>
          /\ totalToFromTuples # <<>>
          /\ tuple' = plannedTuples[Len(totalToFromTuples)]
          /\ totalToFromTuples' = SubSeq(plannedTuples, 1, Len(totalToFromTuples) - 1)]_vars
  /\ [][/\ Len(totalToFromTuples') <= Len(plannedTuples)
        /\ totalToFromTuples' = SubSeq(plannedTuples, 1, Len(totalToFromTuples'))
        /\ plannedTuples' = plannedTuples
        /\ tuple' # tuple => totalToFromTuples' # totalToFromTuples]_vars
  /\ [][pc' \in {"singleSearchAfter", "filterEventsAgainstList", "singleBulkCreate"} =>
          /\ Len(totalToFromTuples') < Len(plannedTuples)
          /\ tuple' = plannedTuples[Len(totalToFromTuples') + 1]]_vars
  /\ [][plannedTuples = <<>> =>
          /\ pc = "whileTuples"
          /\ pc' = "returned"
          /\ toReturn' = [success |-> TRUE, searchAfterTimes |-> <<>>,
                          bulkCreateTimes |-> <<>>, lastLookBackDate |-> Null,
                          createdSignalsCount |-> 0, errors |-> <<>>]]_vars

\* C17 witness: the planner returned two different tuples; the last one's
\* page loop is over, after a search at least, and the first one has been
\* popped and its first search is out.
C17_Witness ==
  /\ pc = "singleSearchAfter"
  /\ lastStep.kind = "pop"
  /\ Len(plannedTuples) = 2
  /\ plannedTuples[1] # plannedTuples[2]
  /\ tuple = plannedTuples[1]
  /\ totalToFromTuples = <<>>
  /\ Len(toReturn.searchAfterTimes) >= 1

(* C18 *)
\* the step in which singleSearchAfter resolves
SearchReturns == pc = "singleSearchAfter" /\ lastStep'.kind = "searched"

\* C18 as stated: every search call that returns adds one entry to
\* searchAfterTimes and every write call that returns adds one entry to
\* bulkCreateTimes, at the end, and nothing else changes the two lists.
C18_Original ==
  /\ [][SearchReturns =>
          toReturn'.searchAfterTimes = Append(toReturn.searchAfterTimes, lastStep'.duration)]_vars
  /\ [][WriteReturns =>
          /\ Len(toReturn'.bulkCreateTimes) = Len(toReturn.bulkCreateTimes) + 1
          /\ SubSeq(toReturn'.bulkCreateTimes, 1, Len(toReturn.bulkCreateTimes)) =
               toReturn.bulkCreateTimes]_vars
  /\ [][~SearchReturns => toReturn'.searchAfterTimes = toReturn.searchAfterTimes]_vars
  /\ [][~WriteReturns => toReturn'.bulkCreateTimes = toReturn.bulkCreateTimes]_vars

\* C18 amended: every search call that returns adds its duration at the end
\* of searchAfterTimes; every write call that returns with a duration adds it
\* at the end of bulkCreateTimes, and one that returns without a duration
\* adds nothing; nothing else changes the two lists. So searchAfterTimes
\* holds the k-th returned search's duration at place k, and bulkCreateTimes
\* holds the durations the writes reported, in call order.
C18_DurationsInCallOrder ==
  /\ [][SearchReturns =>
          toReturn'.searchAfterTimes = Append(toReturn.searchAfterTimes, lastStep'.duration)]_vars
  /\ [][WriteReturns =>
          toReturn'.bulkCreateTimes =
            (IF lastStep'.bulkCreateDuration = Undefined
             THEN toReturn.bulkCreateTimes
             ELSE Append(toReturn.bulkCreateTimes, lastStep'.bulkCreateDuration))]_vars
  /\ [][~SearchReturns => toReturn'.searchAfterTimes = toReturn.searchAfterTimes]_vars
  /\ [][~WriteReturns => toReturn'.bulkCreateTimes = toReturn.bulkCreateTimes]_vars
  /\ [][/\ \A k \in 1..Len(toReturn'.searchAfterTimes) :
             toReturn'.searchAfterTimes[k] = SearchTimeTable[k]
        /\ \A i, j \in 1..Len(toReturn'.bulkCreateTimes) :
             i < j => \E m, n \in 1..Len(BulkTimeTable) :
                        /\ m < n
                        /\ toReturn'.bulkCreateTimes[i] = BulkTimeTable[m]
                        /\ toReturn'.bulkCreateTimes[j] = BulkTimeTable[n]]_vars

\* C18 witness: two searches and two writes have returned; the first write
\* reported a duration and the second none, and bulkCreateTimes holds the
\* first write's alone.
C18_Witness ==
  /\ lastStep.kind = "created"
  /\ lastStep.bulkCreateDuration = Undefined
  /\ toReturn.searchAfterTimes = <<SearchTimeTable[1], SearchTimeTable[2]>>
  /\ toReturn.bulkCreateTimes = <<BulkTimeTable[1]>>

(* C19 *)
\* C19: when filterEventsAgainstList or singleBulkCreate rejects, the run
\* returns at that step with success = false and the exception, as a string,
\* added to errors if it is not there yet; createdSignalsCount, the durations
\* and lastLookBackDate stay as the calls that returned left them, the tuples
\* left in the list are never popped, and a returned run does nothing more.
C19_FilterOrWriteFailureAborts ==
  /\ [][(pc \in {"filterEventsAgainstList", "singleBulkCreate"}
           /\ lastStep'.kind = "caught") =>
          /\ lastStep'.call = pc
          /\ pc' = "returned"
          /\ toReturn'.success = FALSE
          /\ toReturn'.errors =
               (IF lastStep'.error \in Range(toReturn.errors)
                THEN toReturn.errors
                ELSE Append(toReturn.errors, lastStep'.error))
          /\ toReturn'.createdSignalsCount = toReturn.createdSignalsCount
          /\ toReturn'.searchAfterTimes = toReturn.searchAfterTimes
          /\ toReturn'.bulkCreateTimes = toReturn.bulkCreateTimes
          /\ toReturn'.lastLookBackDate = toReturn.lastLookBackDate
          /\ totalToFromTuples' = totalToFromTuples
          /\ searchRequest' = NoRequest]_vars
  /\ [][pc = "returned" =>
          /\ pc' = "returned"
          /\ toReturn' = toReturn
          /\ totalToFromTuples' = totalToFromTuples]_vars

\* C19 witness: the second write of a run rejected after the first had
\* created signals; the run has returned with success = false, the count of
\* the first write, and a tuple still in the list.
C19_Witness ==
  /\ pc = "returned"
  /\ lastStep.kind = "caught"
  /\ lastStep.call = "singleBulkCreate"
  /\ Len(toReturn.searchAfterTimes) = 2
  /\ toReturn.createdSignalsCount > 0
  /\ ~toReturn.success
  /\ lastStep.error \in Range(toReturn.errors)
  /\ totalToFromTuples # <<>>

(* C20 *)
\* Against an index that runs dry (SpecLive), with every awaited call
\* settling, every run returns and stays returned.
ReturnsWhenIndexRunsDry == <>[](pc = "returned")

\* C20: every run returns, for every search service that holds finitely many
\* hits, a service that answers equal requests with equal pages included;
\* then the page loop must not send the same request again with nothing
\* changed. Stated on the steps: when a processed page sends the next search
\* of its tuple out, the cursor has moved from the one the page was fetched
\* with, or the tuple's counter has grown.
C20_PageLoopNeverRepeatsItsRequest ==
  [][(PageDone /\ pc' = "singleSearchAfter") =>
       \/ sortId' # sortId
       \/ signalsCreatedCount' > signalsCreatedCount]_vars

(* C21 *)
\* the step in which singleSearchAfter resolves to a page with a non-zero
\* total and at least one hit
PageFetched ==
  /\ SearchReturns
  /\ lastStep'.hitCount > 0
  /\ IF lastStep'.total.type = "number"
     THEN lastStep'.total.n # 0
     ELSE lastStep'.total.value # 0

\* C21: a search that returns a page with a non-zero total and at least one
\* hit sets lastLookBackDate to the date of the timestamp of the page's last
\* hit, before the filter sees the page; no other step changes it: not a
\* page that is empty or has a total of 0, not the filter (whatever it
\* removes), not the write, not a missing sort token, not a fatal error.
C21_LastLookBackDateIsLastHitOfLastPage ==
  /\ [][PageFetched =>
          /\ Len(searchResult'.hits) = lastStep'.hitCount
          /\ toReturn'.lastLookBackDate =
               NewDate(searchResult'.hits[Len(searchResult'.hits)].timestamp)]_vars
  /\ [][~PageFetched => toReturn'.lastLookBackDate = toReturn.lastLookBackDate]_vars

\* C21 witness: the filter removed every hit of the first page, whose last
\* hit is of 09:56; the next search is out and lastLookBackDate is that date.
C21_Witness ==
  /\ pc = "singleSearchAfter"
  /\ lastStep.kind = "filtered"
  /\ lastStep.filtered = <<>>
  /\ Len(toReturn.searchAfterTimes) = 1
  /\ toReturn.lastLookBackDate = "Date(1601546160000)"

(* C22 *)
\* C22: success starts true with no errors; a step leaves it true exactly
\* when it was true, the step is neither the return for a malformed tuple
\* nor the catch of a call that raised, and, if the step is a write that
\* returned, the write reported success = true. So the returned success is
\* true if and only if none of the three happened in the run. errors changes
\* only in those three kinds of step, so a run without a write and without a
\* raise or malformed tuple returns success = true and no errors.
C22_SuccessIffNothingFailed ==
  /\ (toReturn.success /\ toReturn.errors = <<>>)
  /\ [][toReturn'.success =
          (/\ toReturn.success
           /\ ~(pc = "whileTuples" /\ lastStep'.kind = "malformed")
           /\ ~(pc \in {"singleSearchAfter", "filterEventsAgainstList", "singleBulkCreate"}
                  /\ lastStep'.kind = "caught")
           /\ WriteReturns => lastStep'.success)]_vars
  /\ [][toReturn'.errors # toReturn.errors =>
          \/ pc = "whileTuples" /\ lastStep'.kind = "malformed"
          \/ lastStep'.kind = "caught"
          \/ WriteReturns /\ lastStep'.errors # <<>>]_vars

\* C22 witness: a run over two pages has completed without a raise or a
\* malformed tuple, and its success is false because a write reported
\* success = false.
C22_Witness ==
  /\ pc = "returned"
  /\ lastStep.kind = "completed"
  /\ ~toReturn.success
  /\ Len(toReturn.searchAfterTimes) = 2
  /\ Len(toReturn.bulkCreateTimes) = 2
  /\ toReturn.errors = <<"Error: x">>

====
